---- MODULE Spec2Model ----
(***************************************************************************)
(* A model of src/bambu2prusa.py: the Bambu2PrusaConverter class and       *)
(* main().                                                                 *)
(*                                                                         *)
(* Text is modelled lexically.  A file's text is a sequence of lines, a    *)
(* line is a sequence of tags, a tag has a kind ("decl", "open", "close",  *)
(* "empty"), a name and a sequence of attributes, and an attribute has a   *)
(* prefix, a name, a value and a flag `on` that a rewrite clears when it   *)
(* deletes the attribute's text (the blank before it stays in the tag).    *)
(* A value is a sequence of atoms: single characters where a rule of the   *)
(* code inspects characters, and opaque runs of characters elsewhere.      *)
(***************************************************************************)
EXTENDS Integers, Sequences, FiniteSets, TLC

\* ------------------------------------------------------------------ bounds

\* Objects in the resources section of one model file.
MaxObjs == 3
\* Model files in one source package.
MaxFiles == 2
\* convert() calls on one converter instance.
MaxRuns == 2

\* ------------------------------------------------------------ text: atoms

\* The characters of the class [0-9A-Z] that occur in the model's values.
UpperDigit == {"0", "1", "4", "8", "C", "F", "T", "U"}
\* ASCII letters and digits that occur in the model's values.
Alnum == UpperDigit \cup {"a", "b", "c"}
\* The class [\w\d-] of the encoding rule.
EncodingChar == Alnum \cup {"-"}
Backslash == "\\"

NoAttr == [has |-> FALSE, v |-> <<>>]
Opt(v) == [has |-> TRUE, v |-> v]

A(p, n, v) == [p |-> p, n |-> n, v |-> v, on |-> TRUE]
T(k, n, a) == [k |-> k, n |-> n, a |-> a]

CoreNs == <<"http://schemas.microsoft.com/3dmanufacturing/core/2015/02">>
Slic3rNs == <<"http://schemas.slic3r.org/3mf/2017/06">>
ProdNs == <<"http://schemas.microsoft.com/3dmanufacturing/production/2015/06">>
ItemTransform == <<"0.799151571 0 0 0 0.799151571 0 0 0 0.799151571 184.67373 221.31425 1.61151839">>

\* ----------------------------------------------------- source model files
\* A source model file, described by the features the code reacts to, and
\* its text.  These are the inputs; nothing here models the converter.

PaintCases ==
    { [c |-> c, s |-> s] :
        c \in {NoAttr, Opt(<<"F", "F">>)},
        s \in {NoAttr, Opt(<<"0", "1">>), Opt(<<"0", "c">>), Opt(<<>>)} }

NameCases == {NoAttr, Opt(<<"a">>), Opt(<<"a", Backslash, "b">>)}

TypeCases == {"model", "support", "none"}

SeqsUpTo(S, n) == UNION { [1..k -> S] : k \in 0..n }

\* The sequence s, with every element worked out.
Tup(s) == SubSeq(s, 1, Len(s))

FileDescs ==
    [ layout : {"lines", "oneLine"},
      root   : {"bambu", "xmlnsOnly"},
      broken : BOOLEAN,
      types  : SeqsUpTo(TypeCases, MaxObjs),
      ids    : {"unique", "dup", "noid"},
      paint  : PaintCases,
      name   : NameCases ]

IdAtom(i) == CASE i = 1 -> "1" [] i = 2 -> "2" [] i = 3 -> "3" [] i = 4 -> "4"
               [] OTHER -> "8"

\* The identifier of the i-th object of a file, as written in its text.
DescId(d, i) ==
    CASE d.ids = "unique" -> Opt(<<IdAtom(i)>>)
      [] d.ids = "dup"    -> Opt(<<"1">>)
      [] OTHER            -> IF i = 1 THEN NoAttr ELSE Opt(<<IdAtom(i)>>)

OptAttr(p, n, o) == IF o.has THEN <<A(p, n, o.v)>> ELSE <<>>

ObjectTags(d, i) ==
    << T("open", "object",
           OptAttr("", "id", DescId(d, i))
           \o <<A("p", "UUID", <<"0", "0", "0", "1">>)>>
           \o OptAttr("", "name", d.name)
           \o (IF d.types[i] = "none" THEN <<>>
               ELSE <<A("", "type", <<d.types[i]>>)>>)),
       T("open", "mesh", <<>>),
       T("empty", "triangle",
           <<A("", "v1", <<"0">>)>>
           \o OptAttr("", "paint_color", d.paint.c)
           \o OptAttr("", "paint_seam", d.paint.s)),
       T("close", "mesh", <<>>),
       T("close", "object", <<>>) >>

RECURSIVE AllObjectTags(_, _)
AllObjectTags(d, i) ==
    IF i > Len(d.types) THEN <<>>
    ELSE ObjectTags(d, i) \o AllObjectTags(d, i + 1)

RootTag(d) ==
    IF d.root = "bambu"
    THEN T("open", "model",
           << A("", "unit", <<"millimeter">>), A("xml", "lang", <<"en-US">>),
              A("", "xmlns", CoreNs), A("xmlns", "p", ProdNs),
              A("", "requiredextensions", <<"p">>) >>)
    ELSE T("open", "model", <<A("", "xmlns", CoreNs)>>)

DescTags(d) ==
    LET all == << T("decl", "xml", << A("", "version", <<"1.0">>),
                                     A("", "encoding", <<"U", "T", "F", "-", "8">>) >>),
                  RootTag(d),
                  T("open", "resources", <<>>) >>
               \o AllObjectTags(d, 1)
               \o << T("close", "resources", <<>>),
                     T("empty", "build", <<>>),
                     T("close", "model", <<>>) >>
    IN  IF d.broken THEN SubSeq(all, 1, Len(all) - 1) ELSE all

\* The text of the file: one tag per line, or everything on one line.
Render(d) ==
    LET tags == DescTags(d)
    IN  IF d.layout = "lines" THEN Tup([i \in 1..Len(tags) |-> <<tags[i]>>])
        ELSE <<tags>>

\* ------------------------------------------------ model_convert_re: text

Strip(a) == [a EXCEPT !.on = FALSE]

\* re.sub(r'xmlns=[^=]+"', '', content): the text xmlns="..." goes; a
\* prefixed declaration (xmlns:p=) does not hold the text `xmlns=`.
RemXmlnsAttr(a) == IF a.on /\ a.p = "" /\ a.n = "xmlns" THEN Strip(a) ELSE a
RemXmlnsTag(tag) == [tag EXCEPT !.a = Tup([i \in 1..Len(tag.a) |-> RemXmlnsAttr(tag.a[i])])]
rem_xmlns(text) ==
    Tup([l \in 1..Len(text) |-> Tup([i \in 1..Len(text[l]) |-> RemXmlnsTag(text[l][i])])])

\* re.sub(r'p:UUID[^"]+"[^"]+"', '', ...): needs a value of one character
\* or more.
RemPUUIDAttr(a) ==
    IF a.on /\ a.p = "p" /\ a.n = "UUID" /\ Len(a.v) > 0 THEN Strip(a) ELSE a
RemPUUIDTag(tag) == [tag EXCEPT !.a = Tup([i \in 1..Len(tag.a) |-> RemPUUIDAttr(tag.a[i])])]
rem_pUUID(text) ==
    Tup([l \in 1..Len(text) |-> Tup([i \in 1..Len(text[l]) |-> RemPUUIDTag(text[l][i])])])

\* re.sub(r'encoding=[\'"][\w\d-]+[\'"]', "", ...)
RemEncodingAttr(a) ==
    IF a.on /\ a.p = "" /\ a.n = "encoding" /\ Len(a.v) > 0
       /\ \A i \in 1..Len(a.v) : a.v[i] \in EncodingChar
    THEN Strip(a) ELSE a
RemEncodingTag(tag) == [tag EXCEPT !.a = Tup([i \in 1..Len(tag.a) |-> RemEncodingAttr(tag.a[i])])]
rem_encoding(text) ==
    Tup([l \in 1..Len(text) |-> Tup([i \in 1..Len(text[l]) |-> RemEncodingTag(text[l][i])])])

\* .replace("paint_color", "slic3rpe:mmu_segmentation")
RemPaintColorAttr(a) ==
    IF a.p = "" /\ a.n = "paint_color"
    THEN [a EXCEPT !.p = "slic3rpe", !.n = "mmu_segmentation"] ELSE a
RemPaintColorTag(tag) == [tag EXCEPT !.a = Tup([i \in 1..Len(tag.a) |-> RemPaintColorAttr(tag.a[i])])]
rem_paint_color(text) ==
    Tup([l \in 1..Len(text) |-> Tup([i \in 1..Len(text[l]) |-> RemPaintColorTag(text[l][i])])])

\* The tag the model rule writes.
PrusaRootTag ==
    T("open", "model",
      << A("", "unit", <<"millimeter">>), A("xml", "lang", <<"en-US">>),
         A("", "xmlns", CoreNs), A("xmlns", "slic3rpe", Slic3rNs) >>)

\* The text of the tag starts with `<model ` (a deleted attribute leaves
\* its blank).
StartsModelBlank(tag) ==
    tag.k \in {"open", "empty"} /\ tag.n = "model" /\ Len(tag.a) > 0
\* The text of the tag ends with `">`.
EndsQuoteGt(tag) ==
    tag.k = "open" /\ Len(tag.a) > 0 /\ tag.a[Len(tag.a)].on

\* re.sub(r'<model[ ].*">', ..., ...) on one line: `.` does not match a
\* line break and `.*` is greedy, so the match runs from the first
\* `<model ` of the line to the last `">` of the line.
AddSlic3rpeLine(line) ==
    LET starts == {i \in 1..Len(line) : StartsModelBlank(line[i])}
    IN  IF starts = {} THEN line
        ELSE LET i == CHOOSE x \in starts : \A y \in starts : x <= y
                 ends == {j \in i..Len(line) : EndsQuoteGt(line[j])}
             IN  IF ends = {} THEN line
                 ELSE LET j == CHOOSE x \in ends : \A y \in ends : y <= x
                      IN  SubSeq(line, 1, i - 1) \o <<PrusaRootTag>>
                          \o SubSeq(line, j + 1, Len(line))
add_slic3rpe(text) == Tup([l \in 1..Len(text) |-> AddSlic3rpeLine(text[l])])

\* re.sub("paint_seam=\"[0-9A-Z]*\"", "", ...)
RemPaintSeamAttr(a) ==
    IF a.on /\ a.p = "" /\ a.n = "paint_seam"
       /\ \A i \in 1..Len(a.v) : a.v[i] \in UpperDigit
    THEN Strip(a) ELSE a
RemPaintSeamTag(tag) == [tag EXCEPT !.a = Tup([i \in 1..Len(tag.a) |-> RemPaintSeamAttr(tag.a[i])])]
rem_paint_seam(text) ==
    Tup([l \in 1..Len(text) |-> Tup([i \in 1..Len(text[l]) |-> RemPaintSeamTag(text[l][i])])])

\* Lines 131-141, in the order of the code.
Normalize(text) ==
    rem_paint_seam(add_slic3rpe(rem_paint_color(rem_encoding(rem_pUUID(rem_xmlns(text))))))

\* ----------------------------------------------- ET.fromstring and trees

RECURSIVE FlattenFrom(_, _)
FlattenFrom(text, l) ==
    IF l > Len(text) THEN <<>> ELSE text[l] \o FlattenFrom(text, l + 1)
Flatten(text) == FlattenFrom(text, 1)

IsOn(a) == a.on
\* The tag as a parser reads it: deleted attributes are not in the text.
Visible(tag) == [tag EXCEPT !.a = SelectSeq(tag.a, IsOn)]

IsNsDecl(a) == a.p = "xmlns" \/ (a.p = "" /\ a.n = "xmlns")
DeclaredBy(tag) == {tag.a[i].n : i \in {j \in 1..Len(tag.a) : tag.a[j].p = "xmlns"}}
NoDupAttrs(tag) ==
    \A i, j \in 1..Len(tag.a) :
        (tag.a[i].p = tag.a[j].p /\ tag.a[i].n = tag.a[j].n) => i = j
HasEncoding(tag) == \E i \in 1..Len(tag.a) : tag.a[i].p = "" /\ tag.a[i].n = "encoding"

\* One pass over the tags with the stack of open elements: well-formed
\* nesting, one root, every prefix declared in scope, no attribute twice,
\* and (the text is a str) no encoding declaration.  parents[i] is the name
\* of the element that holds tag i.
RECURSIVE Scan(_, _, _, _, _)
Scan(toks, i, stack, started, parents) ==
    IF i > Len(toks)
    THEN [ok |-> stack = <<>> /\ started, parents |-> parents]
    ELSE LET t == toks[i]
             scope == IF stack = <<>> THEN {"", "xml", "xmlns"} ELSE Head(stack).ns
             declared == scope \cup DeclaredBy(t)
             attrsOk == NoDupAttrs(t) /\ \A k \in 1..Len(t.a) : t.a[k].p \in declared
             par == IF stack = <<>> THEN "" ELSE Head(stack).n
             bad == [ok |-> FALSE, parents |-> <<>>]
         IN  CASE t.k = "decl" ->
                    IF i = 1 /\ ~HasEncoding(t)
                    THEN Scan(toks, i + 1, stack, started, Append(parents, par))
                    ELSE bad
               [] t.k = "open" ->
                    IF (stack = <<>> /\ started) \/ ~attrsOk THEN bad
                    ELSE Scan(toks, i + 1, <<[n |-> t.n, ns |-> declared]>> \o stack,
                              TRUE, Append(parents, par))
               [] t.k = "empty" ->
                    IF (stack = <<>> /\ started) \/ ~attrsOk THEN bad
                    ELSE Scan(toks, i + 1, stack, TRUE, Append(parents, par))
               [] OTHER ->
                    IF stack # <<>> /\ Head(stack).n = t.n
                    THEN Scan(toks, i + 1, Tail(stack), started, Append(parents, par))
                    ELSE bad

ParseToks(toks) ==
    LET r == Scan(toks, 1, <<>>, FALSE, <<>>)
    IN  [ok |-> r.ok, toks |-> IF r.ok THEN toks ELSE <<>>, parents |-> r.parents]

\* ET.fromstring(text)
fromstring(text) ==
    LET flat == Flatten(text)
    IN  ParseToks(Tup([i \in 1..Len(flat) |-> Visible(flat[i])]))

\* The index of the tag that closes the element opened at i.
RECURSIVE CloseOf(_, _, _)
CloseOf(toks, j, depth) ==
    IF toks[j].k = "open" THEN CloseOf(toks, j + 1, depth + 1)
    ELSE IF toks[j].k = "close"
         THEN (IF depth = 1 THEN j ELSE CloseOf(toks, j + 1, depth - 1))
         ELSE (IF depth = 0 THEN j ELSE CloseOf(toks, j + 1, depth))
EndOf(toks, i) == CloseOf(toks, i, 0)

IsElem(tag) == tag.k \in {"open", "empty"}

\* tree.findall(".//{*}resources/{*}object"): the indices, in document order.
findall_objects(tree) ==
    LET idx == Tup([i \in 1..Len(tree.toks) |-> i])
        Hit(i) == IsElem(tree.toks[i]) /\ tree.toks[i].n = "object"
                  /\ tree.parents[i] = "resources"
    IN  SelectSeq(idx, Hit)

\* element.attrib[name] for an unprefixed name.
HasAttr(tag, n) == \E i \in 1..Len(tag.a) : tag.a[i].p = "" /\ tag.a[i].n = n
GetAttr(tag, n) ==
    tag.a[CHOOSE i \in 1..Len(tag.a) : tag.a[i].p = "" /\ tag.a[i].n = n].v
HasPAttr(tag, p, n) == \E i \in 1..Len(tag.a) : tag.a[i].p = p /\ tag.a[i].n = n
GetPAttr(tag, p, n) ==
    tag.a[CHOOSE i \in 1..Len(tag.a) : tag.a[i].p = p /\ tag.a[i].n = n].v

\* The namespace declarations in scope of the elements below the root.
RootNs(toks) ==
    LET roots == {i \in 1..Len(toks) : IsElem(toks[i])}
    IN  IF roots = {} THEN <<>>
        ELSE SelectSeq(toks[CHOOSE x \in roots : \A y \in roots : x <= y].a, IsNsDecl)

\* The element at i: its tags, and the declarations it inherits.
Element(tree, i) ==
    [toks |-> SubSeq(tree.toks, i, EndOf(tree.toks, i)), ns |-> RootNs(tree.toks)]

\* relevant_objects[key] = el on a dict: a key that is there keeps its place.
DictPut(d, key, el) ==
    IF \E i \in 1..Len(d) : d[i].id = key
    THEN Tup([i \in 1..Len(d) |-> IF d[i].id = key THEN [id |-> key, el |-> el] ELSE d[i]])
    ELSE Append(d, [id |-> key, el |-> el])

\* The loop of lines 148-151.  A missing attribute raises KeyError, which
\* line 156 catches: the loop ends and relevant_objects keeps what it has.
RECURSIVE FilterObjects(_, _, _, _)
FilterObjects(tree, objs, j, acc) ==
    IF j > Len(objs) THEN acc
    ELSE LET o == tree.toks[objs[j]]
         IN  IF ~HasAttr(o, "type") THEN acc
             ELSE IF ~HasAttr(o, "id") THEN acc
             ELSE IF GetAttr(o, "type") = <<"model">>
                  THEN FilterObjects(tree, objs, j + 1,
                                     DictPut(acc, GetAttr(o, "id"), Element(tree, objs[j])))
                  ELSE FilterObjects(tree, objs, j + 1, acc)

None == [has |-> FALSE, v |-> <<>>]
NoName == [has |-> FALSE, v |-> ""]

\* model_convert_re(bmodel_path): `exists` is os.path.exists(bmodel_path),
\* `text` the file's text, `basename` os.path.basename(bmodel_path).
model_convert_re(exists, text, basename) ==
    IF ~exists THEN [filename |-> NoName, objects |-> None]
    ELSE LET tree == fromstring(Normalize(text))
             relevant_objects ==
                 IF tree.ok THEN FilterObjects(tree, findall_objects(tree), 1, <<>>)
                 ELSE <<>>
         IN  [filename |-> [has |-> TRUE, v |-> basename],
              objects |-> [has |-> TRUE, v |-> relevant_objects]]

\* ------------------------------------------------ inject_bobject2pobject

\* 3mf_template/3D/3dmodel_template.xml as ET.parse reads it.
Template ==
    << PrusaRootTag,
       T("open", "resources", <<>>), T("close", "resources", <<>>),
       T("open", "build", <<>>), T("close", "build", <<>>),
       T("close", "model", <<>>) >>

\* ET.Element("item", objectid=..., transform=..., printable="1")
ItemTag(id) ==
    T("empty", "item",
      <<A("", "objectid", id), A("", "transform", ItemTransform), A("", "printable", <<"1">>)>>)

\* Lines 180-182: build.append(item) for each key, in the dict's order.
AppendItems(toks, bobjects) ==
    LET builds == {i \in 1..Len(toks) : toks[i].k = "open" /\ toks[i].n = "build"}
        b == CHOOSE x \in builds : \A y \in builds : x <= y
        e == EndOf(toks, b)
    IN  SubSeq(toks, 1, e - 1)
        \o Tup([k \in 1..Len(bobjects) |-> ItemTag(bobjects[k].id)])
        \o SubSeq(toks, e, Len(toks))

\* ET.tostring(element): the top tag declares the inherited namespaces.
NotNsDecl(a) == ~IsNsDecl(a)
Serialize(el) ==
    <<[el.toks[1] EXCEPT !.a = el.ns \o SelectSeq(el.toks[1].a, NotNsDecl)]>>
    \o Tail(el.toks)

\* re.sub reads its replacement as a template: a backslash before a letter
\* or a digit is an escape, and each of these raises re.error or puts a
\* character in the text that fromstring refuses.
BadEscape(toks) ==
    \E t \in 1..Len(toks) : \E k \in 1..Len(toks[t].a) :
        LET v == toks[t].a[k].v
        IN  \E i \in 1..Len(v) : v[i] = Backslash /\ i < Len(v) /\ v[i + 1] \in Alnum

ResourcesOpen == T("open", "resources", <<>>)

\* re.sub("<resources>", "<resources>\n" + repl, content): every tag whose
\* text is <resources>.
RECURSIVE Splice(_, _, _)
Splice(toks, i, repl) ==
    IF i > Len(toks) THEN <<>>
    ELSE (IF toks[i] = ResourcesOpen THEN <<toks[i]>> \o repl ELSE <<toks[i]>>)
         \o Splice(toks, i + 1, repl)

\* The loop of lines 187-189.
RECURSIVE SpliceAll(_, _, _)
SpliceAll(toks, bobjects, k) ==
    IF k > Len(bobjects) THEN [raised |-> FALSE, toks |-> toks]
    ELSE LET repl == Serialize(bobjects[k].el)
         IN  IF BadEscape(repl) THEN [raised |-> TRUE, toks |-> <<>>]
             ELSE SpliceAll(Splice(toks, 1, repl), bobjects, k + 1)

Raised == [raised |-> TRUE, doc |-> <<>>]

\* inject_bobject2pobject(bobjects): `template_exists` is whether the model
\* template asset is there.  Every exception is re-raised.
inject_bobject2pobject(template_exists, bobjects) ==
    IF ~template_exists THEN Raised
    ELSE IF ~bobjects.has THEN Raised
    ELSE LET spliced == SpliceAll(AppendItems(Template, bobjects.v), bobjects.v, 1)
         IN  IF spliced.raised THEN Raised
             ELSE LET tree == ParseToks(spliced.toks)
                  IN  IF tree.ok THEN [raised |-> FALSE, doc |-> tree.toks] ELSE Raised

\* ------------------------------------------------------------ the state

VARIABLES
    fpc,        \* one file: "read", "converted", "injected"
    fdesc,      \* one file: the source model file
    fconv,      \* one file: what model_convert_re returned
    fdoc,       \* one file: what inject_bobject2pobject returned
    run,        \* how many times main() ran convert() on the converter
    pc,         \* where the current run is
    pkg,        \* the current run's input file
    fault,      \* what the environment refuses in the current run
    raised,     \* the stages of the current run that raised
    extracted,  \* extracted_path (a directory, 0 before decompress_zip)
    bambu_model_paths,      \* self.bambu_model_paths
    temp_3mf_dir,           \* self.temp_3mf_dir
    nextTmp,    \* the next name tempfile hands out
    disk,       \* the temporary directories on disk, with what they hold
    out,        \* the file at the current run's output path
    obj_IDs_Elements,       \* convert's local list
    prusamodel_filenames,   \* convert's local list
    ix,         \* the index of the running loop of convert
    exitcode,   \* what main() returned (-1 while it runs)
    printed,    \* what the current run printed
    steps,      \* the pipeline steps the current run performed
    wroteRuns   \* the runs that wrote a model file to their assembly directory

fvars == <<fpc, fdesc, fconv, fdoc>>
rvars == <<run, pc, pkg, fault, raised, extracted, bambu_model_paths, temp_3mf_dir,
           nextTmp, disk, out, obj_IDs_Elements, prusamodel_filenames, ix, exitcode,
           printed, steps, wroteRuns>>
vars == <<fvars, rvars>>

NoPkg == [input |-> "missing", objdir |-> FALSE, files |-> <<>>]

Absent == [state |-> "absent", entries |-> {}]

\* The state after Bambu2PrusaConverter.__init__ (lines 41-45).
ConverterInit ==
    /\ run = 0
    /\ pc = "idle"
    /\ pkg = NoPkg
    /\ fault = "none"
    /\ raised = {}
    /\ extracted = 0
    /\ bambu_model_paths = <<>>
    /\ temp_3mf_dir = 1
    /\ nextTmp = 2
    /\ disk = {}
    /\ out = Absent
    /\ obj_IDs_Elements = <<>>
    /\ prusamodel_filenames = <<>>
    /\ ix = 1
    /\ exitcode = -1
    /\ printed = {}
    /\ steps = {}
    /\ wroteRuns = {}

\* ------------------------------------- one model file through the pipeline
\* What convert() does with each discovered file (lines 90 and 96), for
\* every source model file of FileDescs.

NoConv == [filename |-> NoName, objects |-> None]

FileInit ==
    /\ fpc = "read"
    /\ fdesc \in FileDescs
    /\ fconv = NoConv
    /\ fdoc = Raised
    /\ ConverterInit

FileConvert ==
    /\ fpc = "read"
    /\ fconv' = model_convert_re(TRUE, Render(fdesc), "plate_1.model")
    /\ fpc' = "converted"
    /\ UNCHANGED <<fdesc, fdoc, rvars>>

FileInject ==
    /\ fpc = "converted"
    /\ fdoc' = inject_bobject2pobject(TRUE, fconv.objects)
    /\ fpc' = "injected"
    /\ UNCHANGED <<fdesc, fconv, rvars>>

FileNext == FileConvert \/ FileInject

SpecFile == FileInit /\ [][FileNext]_vars

\* ------------------------------------------------------------ the runs
\* main() and convert(), run after run on one converter.  Every run has
\* an output path of its own, with no file at it when the run starts.

\* What a run can be given.  A model file of a package is named by its
\* directory under 3D/Objects and its base name; `kind` says what it holds:
\* "good" a well-formed file, "broken" text that does not parse, "noattr" an
\* object without a type, "dangling" a listed path with no file behind it
\* when model_convert_re looks (line 117).
Paths ==
    << [dir |-> "a", base |-> "plate.model"],
       [dir |-> "a", base |-> "x&y.model"],
       [dir |-> "b", base |-> "plate.model"] >>
Kinds == {"good", "broken", "noattr", "dangling"}
\* Names that are not XML text as they stand.
XmlUnsafe(name) == name = "x&y.model"

\* The listings of 3D/Objects: up to MaxFiles paths, in listing order.
Listings ==
    { l \in SeqsUpTo(1..Len(Paths), MaxFiles) :
        \A a, b \in 1..Len(l) : a < b => l[a] < l[b] }
FilesOf(l) ==
    { Tup([k \in 1..Len(l) |->
              [dir |-> Paths[l[k]].dir, base |-> Paths[l[k]].base, kind |-> ks[k]]]) :
        ks \in [1..Len(l) -> Kinds] }

\* What the archive of a run holds.
ZipContents ==
    { [input |-> "zip", objdir |-> FALSE, files |-> <<>>] }
    \cup { [input |-> "zip", objdir |-> TRUE, files |-> f] :
             f \in UNION { FilesOf(l) : l \in Listings } }
Inputs == {"missing", "notzip", "zip"}
Unread(input) == [input |-> input, objdir |-> FALSE, files |-> <<>>]

Faults == {"none", "no_models_template", "no_content_types", "no_rels_template",
           "obj_write", "zip_open", "zip_write"}

PlainFile ==
    [ layout |-> "lines", root |-> "bambu", broken |-> FALSE,
      types |-> <<"model", "support">>, ids |-> "unique",
      paint |-> [c |-> Opt(<<"F", "F">>), s |-> Opt(<<"0", "1">>)],
      name |-> NoAttr ]
\* The text of a model file of each kind.
KindDesc(kind) ==
    CASE kind = "broken" -> [PlainFile EXCEPT !.broken = TRUE]
      [] kind = "noattr" -> [PlainFile EXCEPT !.types = <<"model", "none">>]
      [] OTHER           -> PlainFile

\* ---- the disk

DirIds == {d.id : d \in disk}
DirAt(id) == CHOOSE d \in disk : d.id = id
EntriesAt(id) == IF id \in DirIds THEN DirAt(id).entries ELSE {}
\* os.makedirs(dir, exist_ok=True), then the directory holds `entries`.
WithEntries(dsk, id, r, entries) ==
    {d \in dsk : d.id # id}
    \cup {[id |-> id, kind |-> "assembly", run |-> r, entries |-> entries]}

\* ---- write_prusa_model (lines 219-235)

ObjectEntry(name, src) == [part |-> "object", name |-> name, src |-> src, rels |-> <<>>]
\* The directory after the write: the file replaces one of the same name;
\* a write that fails is logged and leaves no file.
write_prusa_model(entries, filename, src, fails) ==
    IF fails THEN entries
    ELSE {e \in entries : ~(e.part = "object" /\ e.name = filename)}
         \cup {ObjectEntry(filename, src)}

\* ---- generate3mf_file and compress_zip (lines 203-217, 237-285)

\* Line 245: not final_prusamodels.
NoModelsNever(final_prusamodels) == FALSE
NoModels(final_prusamodels) == final_prusamodels = <<>>

\* Lines 268-273: one Relationship per name, numbered from 1.
Relationships(final_prusamodels) ==
    Tup([k \in 1..Len(final_prusamodels) |->
            [Target |-> final_prusamodels[k].name, Id |-> k,
             src |-> final_prusamodels[k].src]])

PartEntry(part, name, r, rels) == [part |-> part, name |-> name, src |-> r, rels |-> rels]

\* The body of the try of generate3mf_file.  Returns the assembly
\* directory, the output file, the steps done and whether it raised (every
\* exception is logged at line 285 and not raised again).
Assemble(entries, final_prusamodels, f, r) ==
    LET unsafe == \E k \in 1..Len(final_prusamodels) : XmlUnsafe(final_prusamodels[k].name)
        e1 == entries \cup {PartEntry("content_types", "[Content_Types].xml", r, <<>>)}
        e2 == e1 \cup {PartEntry("rels", ".rels", r, Relationships(final_prusamodels))}
        e3 == e2 \cup {PartEntry("metadata", "Slic3r_PE.config", r, <<>>)}
    IN  CASE f = "no_content_types" ->
               [entries |-> entries, out |-> Absent, steps |-> {}, raised |-> TRUE]
          [] f = "no_rels_template" \/ unsafe ->
               [entries |-> e1, out |-> Absent, steps |-> {"rels"}, raised |-> TRUE]
          [] f = "zip_open" ->
               [entries |-> e3, out |-> Absent, steps |-> {"rels", "zip"}, raised |-> TRUE]
          [] f = "zip_write" ->
               [entries |-> e3, out |-> [state |-> "partial", entries |-> {}],
                steps |-> {"rels", "zip"}, raised |-> TRUE]
          [] OTHER ->
               [entries |-> e3, out |-> [state |-> "complete", entries |-> e3],
                steps |-> {"rels", "zip"}, raised |-> FALSE]

\* ---- cleanup (lines 287-297)

\* Line 290: self.bambu_model_paths = []
ResetModelPathsKept(paths) == paths
ResetModelPaths(paths) == <<>>
\* Lines 293-294: shutil.rmtree(self.temp_3mf_dir) if it exists.
RemoveTree(dsk, id) == {d \in dsk : d.id # id}

\* ---- main() and convert()

\* main(), lines 333-340: a run starts.  A missing input ends it at once.
MainStart(input, f) ==
    /\ pc = "idle"
    /\ run < MaxRuns
    /\ run' = run + 1
    /\ pkg' = Unread(input)
    /\ fault' = f
    /\ raised' = {}
    /\ extracted' = 0
    /\ out' = Absent
    /\ steps' = {}
    /\ obj_IDs_Elements' = <<>>
    /\ prusamodel_filenames' = <<>>
    /\ ix' = 1
    /\ IF input = "missing"
       THEN /\ printed' = {"input not found"}
            /\ exitcode' = 1
            /\ pc' = "idle"
       ELSE /\ printed' = {}
            /\ exitcode' = -1
            /\ pc' = "decompress"
    /\ UNCHANGED <<bambu_model_paths, temp_3mf_dir, nextTmp, disk, wroteRuns>>

\* convert(), lines 76-77, and decompress_zip: a fresh name, then
\* extractall, which shows what the archive holds; ZipFile() raises on a
\* file that is no zip archive.
DecompressZip(content) ==
    /\ pc = "decompress"
    /\ nextTmp' = nextTmp + 1
    /\ IF pkg.input = "notzip"
       THEN /\ raised' = raised \cup {"decompress"}
            /\ pc' = "cleanup"
            /\ UNCHANGED <<extracted, disk, pkg>>
       ELSE /\ extracted' = nextTmp
            /\ pkg' = content
            /\ disk' = disk \cup {[id |-> nextTmp, kind |-> "extraction", run |-> run,
                                   entries |-> {}]}
            /\ pc' = "discover"
            /\ UNCHANGED raised
    /\ UNCHANGED <<run, fault, bambu_model_paths, temp_3mf_dir, out, obj_IDs_Elements,
                   prusamodel_filenames, ix, exitcode, printed, steps, wroteRuns>>

\* convert(), lines 78-88: rglob gives a list, never None, so line 84 is
\* never reached; without the directory the list keeps what it held.
Discover ==
    /\ pc = "discover"
    /\ bambu_model_paths' =
          IF pkg.objdir
          THEN Tup([k \in 1..Len(pkg.files) |->
                      [at |-> extracted, src |-> run, dir |-> pkg.files[k].dir,
                       base |-> pkg.files[k].base, kind |-> pkg.files[k].kind]])
          ELSE bambu_model_paths
    /\ obj_IDs_Elements' = <<>>
    /\ prusamodel_filenames' = <<>>
    /\ ix' = 1
    /\ pc' = IF bambu_model_paths' = <<>> THEN "generate" ELSE "convert_models"
    /\ UNCHANGED <<run, pkg, fault, raised, extracted, temp_3mf_dir, nextTmp, disk, out,
                   exitcode, printed, steps, wroteRuns>>

\* convert(), lines 89-91: one turn of the first loop.
ConvertModel ==
    /\ pc = "convert_models"
    /\ LET path == bambu_model_paths[ix]
           exists == path.kind # "dangling" /\ path.at \in DirIds
           r == model_convert_re(exists, Render(KindDesc(path.kind)), path.base)
       IN  obj_IDs_Elements' =
              Append(obj_IDs_Elements, [filename |-> r.filename, objects |-> r.objects,
                                        src |-> path.src])
    /\ steps' = steps \cup {"transform"}
    /\ IF ix = Len(bambu_model_paths)
       THEN pc' = "inject" /\ ix' = 1
       ELSE pc' = pc /\ ix' = ix + 1
    /\ UNCHANGED <<run, pkg, fault, raised, extracted, bambu_model_paths, temp_3mf_dir,
                   nextTmp, disk, out, prusamodel_filenames, exitcode, printed, wroteRuns>>

\* convert(), lines 95-100: one turn of the second loop.  What
\* inject_bobject2pobject raises leaves convert; what write_prusa_model
\* raises does not.
InjectAndWrite ==
    /\ pc = "inject"
    /\ LET e == obj_IDs_Elements[ix]
           doc == inject_bobject2pobject(fault # "no_models_template", e.objects)
       IN  IF doc.raised
           THEN /\ raised' = raised \cup {"inject"}
                /\ steps' = steps \cup {"inject"}
                /\ pc' = "cleanup"
                /\ UNCHANGED <<disk, prusamodel_filenames, ix, wroteRuns>>
           ELSE /\ disk' = WithEntries(disk, temp_3mf_dir, run,
                              write_prusa_model(EntriesAt(temp_3mf_dir), e.filename.v,
                                                e.src, fault = "obj_write"))
                /\ wroteRuns' = IF fault = "obj_write" THEN wroteRuns
                                ELSE wroteRuns \cup {run}
                /\ steps' = steps \cup {"inject", "write"}
                /\ prusamodel_filenames' =
                      Append(prusamodel_filenames, [name |-> e.filename.v, src |-> e.src])
                /\ IF ix = Len(obj_IDs_Elements)
                   THEN pc' = "generate" /\ ix' = 1
                   ELSE pc' = pc /\ ix' = ix + 1
                /\ UNCHANGED raised
    /\ UNCHANGED <<run, pkg, fault, extracted, bambu_model_paths, temp_3mf_dir, nextTmp,
                   out, obj_IDs_Elements, exitcode, printed>>

\* convert(), lines 103-105: generate3mf_file with compress_zip, then the
\* message.  The empty list raises ValueError before the try.
Generate3mf ==
    /\ pc = "generate"
    /\ IF NoModels(prusamodel_filenames)
       THEN /\ raised' = raised \cup {"no models"}
            /\ UNCHANGED <<disk, out, steps, printed>>
       ELSE LET r == Assemble(EntriesAt(temp_3mf_dir), prusamodel_filenames, fault, run)
            IN  /\ disk' = WithEntries(disk, temp_3mf_dir, run, r.entries)
                /\ out' = r.out
                /\ steps' = steps \cup r.steps
                /\ raised' = IF r.raised THEN raised \cup {"assembly"} ELSE raised
                /\ printed' = printed \cup {"Output file created"}
    /\ pc' = "cleanup"
    /\ UNCHANGED <<run, pkg, fault, extracted, bambu_model_paths, temp_3mf_dir, nextTmp,
                   obj_IDs_Elements, prusamodel_filenames, ix, exitcode, wroteRuns>>

\* What left convert() as an exception.
Propagates == raised \cap {"decompress", "inject", "no models"} # {}

\* convert(), lines 106-112, cleanup(), and main(), lines 341-344.
Cleanup ==
    /\ pc = "cleanup"
    /\ bambu_model_paths' = ResetModelPaths(bambu_model_paths)
    /\ disk' = RemoveTree(disk, temp_3mf_dir)
    /\ temp_3mf_dir' = nextTmp
    /\ nextTmp' = nextTmp + 1
    /\ printed' = IF Propagates THEN printed \cup {"Error", "Conversion failed"} ELSE printed
    /\ exitcode' = IF Propagates THEN 1 ELSE 0
    /\ pc' = "idle"
    /\ UNCHANGED <<run, pkg, fault, raised, extracted, out, obj_IDs_Elements,
                   prusamodel_filenames, ix, steps, wroteRuns>>

Init ==
    /\ fpc = "idle"
    /\ fdesc = PlainFile
    /\ fconv = NoConv
    /\ fdoc = Raised
    /\ ConverterInit

Next ==
    \/ \E input \in Inputs, f \in Faults : MainStart(input, f) /\ UNCHANGED fvars
    \/ \E content \in ZipContents : DecompressZip(content) /\ UNCHANGED fvars
    \/ Discover /\ UNCHANGED fvars
    \/ ConvertModel /\ UNCHANGED fvars
    \/ InjectAndWrite /\ UNCHANGED fvars
    \/ Generate3mf /\ UNCHANGED fvars
    \/ Cleanup /\ UNCHANGED fvars

Spec == Init /\ [][Next]_vars

\* --------------------------------------------------------- claims: runs

\* main() has returned.
Done == pc = "idle" /\ run > 0

OutObjects == {e.name : e \in {x \in out.entries : x.part = "object"}}
OutRels ==
    LET r == {x \in out.entries : x.part = "rels"}
    IN  IF r = {} THEN <<>> ELSE (CHOOSE x \in r : TRUE).rels
RelTargets == {OutRels[k].Target : k \in 1..Len(OutRels)}

\* C1: the exit code is 0 if and only if the run wrote the output archive;
\* an error at any stage gives 1, and a failure inside generate3mf_file
\* ends neither in exit code 0 nor in the message 'Output file created'.
C1_ExitZeroIffArchiveWritten ==
    Done =>
        /\ (exitcode = 0) <=> (out.state = "complete")
        /\ ("Output file created" \in printed) => (out.state = "complete")

\* C2: when convert() ends, on every path, neither the extraction
\* directory nor the assembly directory of the run is left on disk.
C2_TempDirsRemoved ==
    Done => \A d \in disk : d.run # run

\* The transform of a model file of this kind succeeds: the file is there,
\* its text parses, every object has its attributes.
TransformSucceeds(kind) == kind = "good"
SucceededNames ==
    {pkg.files[k].base : k \in {j \in 1..Len(pkg.files) : TransformSucceeds(pkg.files[j].kind)}}

\* C3: a model file whose transform fails is skipped and the run goes on
\* with the others; the package holds an object file and a relationship for
\* exactly the files whose transform succeeded; every other error aborts
\* the run.
C3_FailedFilesSkipped ==
    /\ (out.state = "complete") =>
          (OutObjects = SucceededNames /\ RelTargets = SucceededNames)
    /\ (Done /\ pkg.input = "zip" /\ fault = "none" /\ SucceededNames # {}
          /\ \A n \in SucceededNames : ~XmlUnsafe(n)) =>
          out.state = "complete"
    /\ (Done /\ "assembly" \in raised) => exitcode = 1

\* C4: when assembly fails at any step of generate3mf_file or compress_zip,
\* no file is at the output path when the run ends, not even a partial one.
C4_NoOutputWhenAssemblyFails ==
    (Done /\ "assembly" \in raised) => out.state = "absent"

\* C5: in every output package the relationships of _rels/.rels and the
\* model files under 3D/Objects correspond one to one, and the ids are
\* rel-1 ... rel-n.
C5_RelsMatchObjectFiles ==
    (out.state = "complete") =>
        /\ Len(OutRels) = Cardinality(OutObjects)
        /\ \A a, b \in 1..Len(OutRels) : OutRels[a].Target = OutRels[b].Target => a = b
        /\ RelTargets = OutObjects
        /\ \A k \in 1..Len(OutRels) : OutRels[k].Id = k

\* C7: with no 3D/Objects directory, or none of its files a model file,
\* the run ends with a non-zero exit code, creates no output file, and
\* performs no transform, injection or assembly step.
C7_NoModelFilesNoOutput ==
    (Done /\ pkg.input = "zip" /\ (~pkg.objdir \/ pkg.files = <<>>)) =>
        /\ exitcode = 1
        /\ out.state = "absent"
        /\ steps = {}

C7_Witness ==
    Done /\ pkg.input = "zip" /\ pkg.objdir /\ pkg.files = <<>> /\ exitcode = 1

\* C10: nothing of a run is left for the next one on the same converter:
\* convert() starts with an empty list of discovered model files and an
\* assembly directory without files, and no part of a package, and no
\* relationship, comes from the source package of an earlier run.
C10_NoStateAcrossRuns ==
    /\ (pc = "decompress") =>
          (bambu_model_paths = <<>> /\ EntriesAt(temp_3mf_dir) = {})
    /\ \A e \in EntriesAt(temp_3mf_dir) \cup out.entries :
          /\ e.src = run
          /\ \A k \in 1..Len(e.rels) : e.rels[k].src = run

C10_Witness ==
    run = 2 /\ 1 \in wroteRuns /\ out.state = "complete" /\ OutObjects # {}

\* ------------------------------------------------------ claims: one file

\* The identifiers of the objects of type "model" of a source file.
ModelIds(d) == {DescId(d, i).v : i \in {j \in 1..Len(d.types) : d.types[j] = "model"}}
\* The file is what C6 speaks of: well-formed, every object with a type and
\* an identifier of its own.
WellFormedSource(d) ==
    /\ ~d.broken
    /\ d.ids = "unique"
    /\ \A i \in 1..Len(d.types) : d.types[i] # "none"

Keys(m) == {m[i].id : i \in 1..Len(m)}

\* The elements named n directly under an element named par.
DocElems(doc, n, par) ==
    LET tree == ParseToks(doc)
    IN  {i \in 1..Len(doc) : IsElem(doc[i]) /\ doc[i].n = n /\ tree.parents[i] = par}

\* C6: for a model file with N objects of type "model" and M of other
\* types, identifiers unique, model_convert_re returns a mapping of exactly
\* N entries whose keys are the identifiers of the type-"model" objects,
\* each mapped to that object's own subtree.
C6_RetainsExactlyModelObjects ==
    (fpc # "read" /\ WellFormedSource(fdesc)) =>
        /\ fconv.objects.has
        /\ Len(fconv.objects.v) = Cardinality(ModelIds(fdesc))
        /\ Keys(fconv.objects.v) = ModelIds(fdesc)
        /\ \A i \in 1..Len(fconv.objects.v) :
              LET top == fconv.objects.v[i].el.toks[1]
              IN  /\ top.n = "object"
                  /\ GetAttr(top, "id") = fconv.objects.v[i].id
                  /\ GetAttr(top, "type") = <<"model">>

\* C8: for a retained-object mapping of k entries, inject_bobject2pobject
\* returns a document whose build section holds exactly k items, one per
\* retained identifier (printable "1", the fixed transform), and whose
\* resources section holds exactly k objects, each retained object once;
\* for k = 0 both sections are empty and nothing is raised.
C8_InjectsEveryObjectOnce ==
    (fpc = "injected" /\ fconv.objects.has) =>
        LET m == fconv.objects.v
            items == DocElems(fdoc.doc, "item", "build")
            objs == DocElems(fdoc.doc, "object", "resources")
        IN  /\ ~fdoc.raised
            /\ Cardinality(items) = Len(m)
            /\ Cardinality(objs) = Len(m)
            /\ \A k \in 1..Len(m) :
                  /\ Cardinality({i \in items : GetAttr(fdoc.doc[i], "objectid") = m[k].id}) = 1
                  /\ Cardinality({i \in objs : GetAttr(fdoc.doc[i], "id") = m[k].id}) = 1
            /\ \A i \in items :
                  /\ GetAttr(fdoc.doc[i], "printable") = <<"1">>
                  /\ GetAttr(fdoc.doc[i], "transform") = ItemTransform

\* The triangles of the output document that lie in an object with this id.
OutTriangles(doc, id) ==
    {i \in 1..Len(doc) :
        /\ doc[i].n = "triangle"
        /\ \E o \in DocElems(doc, "object", "resources") :
              GetAttr(doc[o], "id") = id /\ o < i /\ i < EndOf(doc, o)}

\* C9: an element with paint_color C and paint_seam S comes out with
\* slic3rpe:mmu_segmentation C and without paint_seam; no paint_seam is
\* left anywhere in the output, whatever its value.
C9_SeamStrippedColorRenamed ==
    (fpc = "injected" /\ ~fdoc.raised) =>
        /\ \A t \in 1..Len(fdoc.doc) : ~HasAttr(fdoc.doc[t], "paint_seam")
        /\ (fdesc.paint.c.has /\ fdesc.paint.s.has) =>
              \A id \in Keys(fconv.objects.v) : \A t \in OutTriangles(fdoc.doc, id) :
                  /\ HasPAttr(fdoc.doc[t], "slic3rpe", "mmu_segmentation")
                  /\ GetPAttr(fdoc.doc[t], "slic3rpe", "mmu_segmentation") = fdesc.paint.c.v

====
